---------------------------- MODULE Spec2Model ----------------------------
(***************************************************************************)
(* A model of msedgedriver-manifest-cache (src/src/main.rs): the run of    *)
(* the pipeline (clean the dist directory, fetch the manifest, save it,    *)
(* deserialize, sanity check, aggregate, emit) and the name parser         *)
(* parse_version_and_platform.                                             *)
(*                                                                         *)
(* Strings are sequences of one-character strings, so that split,          *)
(* strip_prefix, strip_suffix and format! are computed on characters.      *)
(***************************************************************************)
EXTENDS Naturals, Sequences, FiniteSets, TLC

VARIABLES
    fs,         \* the filesystem: path -> node, for the paths that exist
    remote,     \* the document served at MANIFEST_URL
    pc,         \* the statement of run() the process is at, or "exited"
    manifest,   \* run's local `manifest` (the fetched text)
    results,    \* run's local `results.blobs.blobs`
    output,     \* run's local `output.0`: version -> platform -> Properties
    pending,    \* the versions the emitting loop has not reached yet
    exit,       \* how the process ended: status code and what was reported
    runs,       \* the number of runs started
    published,  \* the files under dist/versions each successful run left, in order
    s,          \* the argument of parse_version_and_platform
    parsed      \* its return value, once called

vars == <<fs, remote, pc, manifest, results, output, pending, exit, runs,
          published, s, parsed>>

---------------------------------------------------------------------------
(* Bounds of the model. *)

\* The longest name, in tokens, the name parser is given.
MaxTokens == 5
\* The most <Blob> elements a served manifest holds.
MaxBlobs == 3
\* The most runs of the program in one behaviour.
MaxRuns == 2

---------------------------------------------------------------------------
(* Strings. *)

EmptyString == << >>

SLASH == "/"

\* "edgedriver_" (main.rs line 165)
EDGEDRIVER_PREFIX == <<"e", "d", "g", "e", "d", "r", "i", "v", "e", "r", "_">>

\* ".zip" (main.rs line 166)
ZIP_SUFFIX == <<".", "z", "i", "p">>

\* ".json" (main.rs line 129)
JSON_EXT == <<".", "j", "s", "o", "n">>

\* str::strip_prefix: Some(rest) when t starts with p, else None; the
\* result is a set holding the rest, or the empty set.
StripPrefix(t, p) ==
    IF Len(t) >= Len(p) /\ SubSeq(t, 1, Len(p)) = p
    THEN {SubSeq(t, Len(p) + 1, Len(t))}
    ELSE {}

\* str::trim_end_matches in place of strip_suffix: every trailing p goes,
\* and a string without the suffix is kept whole.
RECURSIVE TrimEndMatches(_, _)
TrimEndMatches(t, p) ==
    IF Len(t) >= Len(p) /\ SubSeq(t, Len(t) - Len(p) + 1, Len(t)) = p
    THEN TrimEndMatches(SubSeq(t, 1, Len(t) - Len(p)), p)
    ELSE {t}

\* str::strip_suffix, the same way.
StripSuffix(t, p) ==
    IF Len(t) >= Len(p) /\ SubSeq(t, Len(t) - Len(p) + 1, Len(t)) = p
    THEN {SubSeq(t, 1, Len(t) - Len(p))}
    ELSE {}

\* str::split('/') collected: the segments between the separators; a
\* string without separator is one segment, the empty string included.
RECURSIVE SplitFrom(_, _, _)
SplitFrom(t, i, cur) ==
    IF i > Len(t) THEN <<cur>>
    ELSE IF t[i] = SLASH THEN <<cur>> \o SplitFrom(t, i + 1, EmptyString)
    ELSE SplitFrom(t, i + 1, Append(cur, t[i]))

Split(t) == SplitFrom(t, 1, EmptyString)

---------------------------------------------------------------------------
(* The name parser. *)

\* Option<(Version, Platform)>: None is the empty tuple, Some((v, p)) the
\* pair.
None == << >>

Some(version, platform) == <<version, platform>>

parse_version_and_platform(t) ==
    LET sides == Split(t)
    IN  IF Len(sides) < 2 THEN None              \* sides.next()? (line 156)
        ELSE IF Len(sides) > 2 THEN None         \* sides.next().is_some()
        ELSE LET version == sides[1]
                 afterPrefix == StripPrefix(sides[2], EDGEDRIVER_PREFIX)
             IN  IF afterPrefix = {} THEN None
                 ELSE LET rest == CHOOSE r \in afterPrefix : TRUE
                          afterSuffix == StripSuffix(rest, ZIP_SUFFIX)
                      IN  IF afterSuffix = {} THEN None
                          ELSE Some(version,
                                    CHOOSE r \in afterSuffix : TRUE)

---------------------------------------------------------------------------
(* The names the parser is checked on: every concatenation of at most      *)
(* MaxTokens tokens, and the names of the unit test and of the examples.   *)

V1_0 == <<"1", ".", "0">>
V2_0 == <<"2", ".", "0">>
ARM64 == <<"a", "r", "m", "6", "4">>
WIN32 == <<"w", "i", "n", "3", "2">>

Tokens == {<<SLASH>>, EDGEDRIVER_PREFIX, ZIP_SUFFIX, V1_0, ARM64, <<"x">>}

RECURSIVE Concat(_)
Concat(ts) == IF ts = << >> THEN EmptyString ELSE Head(ts) \o Concat(Tail(ts))

TokenStrings ==
    {Concat(ts) : ts \in UNION {[1..n -> Tokens] : n \in 0..MaxTokens}}

\* "100.0.1154.0/edgedriver_arm64.zip" (main.rs line 176)
TestName ==
    <<"1", "0", "0", ".", "0", ".", "1", "1", "5", "4", ".", "0", SLASH>>
        \o EDGEDRIVER_PREFIX \o ARM64 \o ZIP_SUFFIX

TestVersion == <<"1", "0", "0", ".", "0", ".", "1", "1", "5", "4", ".", "0">>

ExampleNames ==
    { TestName,
      V1_0 \o <<SLASH, "n", "o", "t">> \o EDGEDRIVER_PREFIX \o ARM64 \o ZIP_SUFFIX,
      V1_0 \o <<SLASH>> \o EDGEDRIVER_PREFIX \o ARM64 \o <<".", "t", "a", "r">>,
      <<"a", SLASH, "b", SLASH, "c">>,
      <<"o", "n", "l", "y", "o", "n", "e", "s", "e", "g", "m", "e", "n", "t">> }

ParserInputs == TokenStrings \cup ExampleNames

---------------------------------------------------------------------------
(* The manifest document.  A document is its top-level shape (recognised   *)
(* by the deserializer or not) and its <Blob> elements in listing order;   *)
(* an element is the sequence of its children <<tag, text>> and the        *)
(* sequence of the children of its <Properties> child.                     *)

\* A child's text, or the empty string when the element has no such child
\* (#[serde(default)], main.rs lines 45-65).
RECURSIVE Child(_, _)
Child(children, tag) ==
    IF children = << >> THEN EmptyString
    ELSE IF Head(children)[1] = tag THEN Head(children)[2]
    ELSE Child(Tail(children), tag)

\* One Blob from one <Blob> element (main.rs lines 44-66).
DeserializeBlob(elem) ==
    [ name |-> Child(elem.children, "Name"),
      url |-> Child(elem.children, "Url"),
      properties |->
        [ last_modified |-> Child(elem.properties, "Last-Modified"),
          etag |-> Child(elem.properties, "Etag"),
          content_length |-> Child(elem.properties, "Content-Length"),
          content_type |-> Child(elem.properties, "Content-Type"),
          content_md5 |-> Child(elem.properties, "Content-MD5") ] ]

\* quick_xml::de::from_str::<EnumerationResults> (main.rs line 109): the
\* set holding results.blobs.blobs, or the empty set for an Err.
from_str(doc) ==
    IF doc.wellFormed
    THEN {[i \in 1..Len(doc.blobs) |-> DeserializeBlob(doc.blobs[i])]}
    ELSE {}

\* impl From<Blob> for Properties (main.rs lines 81-92).
PropertiesFrom(blob) ==
    [ url |-> blob.url,
      last_modified |-> blob.properties.last_modified,
      etag |-> blob.properties.etag,
      md5 |-> blob.properties.content_md5,
      content_length |-> blob.properties.content_length,
      content_type |-> blob.properties.content_type ]

\* serde_json::to_string_pretty(&properties) (main.rs line 127) of one
\* version's HashMap<Platform, Properties>, its entries met in the order
\* `order`: the members in textual order, each a key and the object of the
\* Properties fields in declaration order under their serde names
\* (main.rs lines 68-79).
to_string_pretty(platforms, order) ==
    [ i \in 1..Len(order) |->
        <<order[i],
          << <<"url", platforms[order[i]].url>>,
             <<"lastModified", platforms[order[i]].last_modified>>,
             <<"etag", platforms[order[i]].etag>>,
             <<"md5", platforms[order[i]].md5>>,
             <<"contentLength", platforms[order[i]].content_length>>,
             <<"contentType", platforms[order[i]].content_type>> >> >> ]

\* The orders a HashMap's iterator may visit the keys S in: the hasher is
\* seeded at random (RandomState), so any order.
IterationOrders(S) ==
    {o \in [1..Cardinality(S) -> S] : \A i, j \in DOMAIN o : o[i] = o[j] => i = j}

---------------------------------------------------------------------------
(* The aggregator. *)

\* The empty HashMap (Output::default(), HashMap::default()).
EmptyMap == << >>

\* entry(platform).or_insert(props) in place of insert: the first entry of
\* a pair is kept.
InsertIfAbsent(acc, version, platform, props) ==
    LET inner == IF version \in DOMAIN acc THEN acc[version] ELSE << >>
        updated == [q \in DOMAIN inner \cup {platform} |->
                        IF q \in DOMAIN inner THEN inner[q] ELSE props]
    IN  [w \in DOMAIN acc \cup {version} |->
            IF w = version THEN updated ELSE acc[w]]

\* acc.0.entry(version).or_default().insert(platform, props)
\* (main.rs lines 120-121).
Insert(acc, version, platform, props) ==
    LET inner == IF version \in DOMAIN acc THEN acc[version] ELSE EmptyMap
        updated == [q \in DOMAIN inner \cup {platform} |->
                        IF q = platform THEN props ELSE inner[q]]
    IN  [w \in DOMAIN acc \cup {version} |->
            IF w = version THEN updated ELSE acc[w]]

\* The fold of main.rs lines 114-124 over blobs[i..], from accumulator
\* acc: the set holding the Output, or the empty set when an unwrap of
\* None panics.
RECURSIVE Fold(_, _, _)
Fold(acc, blobs, i) ==
    IF i > Len(blobs) THEN {acc}
    ELSE LET r == parse_version_and_platform(blobs[i].name)
         IN  IF r = None THEN {}
             ELSE Fold(Insert(acc, r[1], r[2], PropertiesFrom(blobs[i])),
                       blobs, i + 1)

---------------------------------------------------------------------------
(* The filesystem below the current directory: a function from the paths   *)
(* that exist (sequences of names) to nodes.                               *)

\* What a file holds: nothing, a manifest document or a JSON text.
NoDocument == [wellFormed |-> FALSE, blobs |-> << >>]

EmptyBytes == [format |-> "empty", xml |-> NoDocument, json |-> << >>]

XmlBytes(doc) == [format |-> "xml", xml |-> doc, json |-> << >>]

JsonBytes(text) == [format |-> "json", xml |-> NoDocument, json |-> text]

DirNode == [dir |-> TRUE, bytes |-> EmptyBytes]

FileNode(bytes) == [dir |-> FALSE, bytes |-> bytes]

\* const DIST (main.rs line 16), and the paths of main.rs lines 102-107.
DIST == <<"d", "i", "s", "t">>

DistPath == <<DIST>>

VersionsPath == <<DIST, <<"v", "e", "r", "s", "i", "o", "n", "s">> >>

ManifestPath == <<DIST, <<"m", "a", "n", "i", "f", "e", "s", "t", ".", "x", "m", "l">> >>

\* versions.join(format!("{}.json", version.0)) (main.rs line 129).
VersionFilePath(version) == Append(VersionsPath, version \o JSON_EXT)

Under(p, q) == Len(q) >= Len(p) /\ SubSeq(q, 1, Len(p)) = p

Parent(p) == SubSeq(p, 1, Len(p) - 1)

\* The parent of p is a directory; the current directory always is.
ParentIsDir(f, p) ==
    Parent(p) = << >> \/ (Parent(p) \in DOMAIN f /\ f[Parent(p)].dir)

\* std::fs::remove_dir_all(p), succeeding.
RemoveDirAll(f, p) == [q \in {q \in DOMAIN f : ~Under(p, q)} |-> f[q]]

\* What a failing remove_dir_all(p) may leave, at the two ends of its
\* walk: everything (it failed on the first entry), or p alone, emptied
\* (it failed on removing p itself).
PartlyRemoved(f, p) ==
    {f, [q \in {q \in DOMAIN f : ~Under(p, q) \/ q = p} |-> f[q]]}

\* std::fs::create_dir(p) can succeed: p is new and its parent a directory.
CanCreateDir(f, p) == p \notin DOMAIN f /\ ParentIsDir(f, p)

CreateDir(f, p) == [q \in DOMAIN f \cup {p} |-> IF q = p THEN DirNode ELSE f[q]]

\* std::fs::write(p, bytes) can succeed: p is no directory, its parent is.
CanWrite(f, p) == ParentIsDir(f, p) /\ ~(p \in DOMAIN f /\ f[p].dir)

WriteFile(f, p, bytes) ==
    [q \in DOMAIN f \cup {p} |-> IF q = p THEN FileNode(bytes) ELSE f[q]]

\* What a failing write(p, bytes) may leave: nothing changed, or, when the
\* file could be opened, the file truncated.
FailedWrite(f, p) ==
    {f} \cup (IF CanWrite(f, p) THEN {WriteFile(f, p, EmptyBytes)} ELSE {})

\* clean_dist_directory (main.rs lines 144-151): the outcomes, each the
\* Result (ok or an IoError) and the filesystem left.  Any operation may
\* fail; one that cannot succeed does fail.
AfterRemove(f) ==
    IF DistPath \in DOMAIN f
    THEN {[ok |-> TRUE, fs |-> RemoveDirAll(f, DistPath)]}
            \cup {[ok |-> FALSE, fs |-> g] : g \in PartlyRemoved(f, DistPath)}
    ELSE {[ok |-> TRUE, fs |-> f]}

AfterCreate(r, p) ==
    IF ~r.ok THEN {r}
    ELSE {[ok |-> FALSE, fs |-> r.fs]}
            \cup (IF CanCreateDir(r.fs, p)
                  THEN {[ok |-> TRUE, fs |-> CreateDir(r.fs, p)]}
                  ELSE {})

\* create_dir_all of both directories with no remove_dir_all before it:
\* what is there stays.
CreateIfMissing(r, p) ==
    IF ~r.ok \/ p \in DOMAIN r.fs THEN {r} ELSE AfterCreate(r, p)

clean_keeping_contents(f) ==
    UNION {CreateIfMissing(r2, VersionsPath) :
              r2 \in CreateIfMissing([ok |-> TRUE, fs |-> f], DistPath)}

clean_dist_directory(f) ==
    UNION {AfterCreate(r2, VersionsPath) :
              r2 \in UNION {AfterCreate(r1, DistPath) : r1 \in AfterRemove(f)}}

\* The files directly under dist/versions: name -> bytes.
VersionFiles(f) ==
    LET ps == {q \in DOMAIN f :
                  Len(q) = Len(VersionsPath) + 1 /\ Under(VersionsPath, q)}
    IN  [n \in {q[Len(q)] : q \in ps} |-> f[Append(VersionsPath, n)]]

---------------------------------------------------------------------------
(* The documents the server may serve: a document of unrecognised shape,   *)
(* and every listing of at most MaxBlobs of the elements below.            *)

\* A <Blob> element with every child present; k marks its texts.
FullElement(name, k) ==
    [ children |-> << <<"Name", name>>, <<"Url", <<"url", k>> >> >>,
      properties |-> << <<"Last-Modified", <<"modified", k>> >>,
                        <<"Etag", <<"etag", k>> >>,
                        <<"Content-Length", <<"length", k>> >>,
                        <<"Content-Type", <<"type", k>> >>,
                        <<"Content-MD5", <<"md5", k>> >> >> ]

NameOf(version, platform) ==
    version \o <<SLASH>> \o EDGEDRIVER_PREFIX \o platform \o ZIP_SUFFIX

\* A name of one segment, as the listing's LATEST_STABLE entries are.
LatestName == <<"L", "A", "T", "E", "S", "T">>

Elements ==
    { FullElement(NameOf(V1_0, ARM64), "a"),
      FullElement(NameOf(V1_0, ARM64), "b"),
      \* an element without Content-MD5
      [ children |-> << <<"Name", NameOf(V1_0, WIN32)>>, <<"Url", <<"url", "c">> >> >>,
        properties |-> << <<"Etag", <<"etag", "c">> >> >> ],
      FullElement(NameOf(V2_0, ARM64), "d"),
      FullElement(LatestName, "e"),
      FullElement(NameOf(EmptyString, ARM64), "f") }

Documents ==
    {NoDocument}
        \cup {[wellFormed |-> TRUE, blobs |-> bs] :
                bs \in UNION {[1..n -> Elements] : n \in 0..MaxBlobs}}

\* What the current directory may hold when the program is first run:
\* nothing; or the tree of an earlier run, with the file of a version no
\* longer listed, and a file and a directory placed by hand.
StaleFile == VersionFilePath(<<"0", ".", "9">>)

NotesFile == <<DIST, <<"n", "o", "t", "e", "s">> >>

EarlierRun ==
    (DistPath :> DirNode) @@ (VersionsPath :> DirNode)
        @@ (ManifestPath :> FileNode(XmlBytes([wellFormed |-> TRUE, blobs |-> << >>])))
        @@ (StaleFile :> FileNode(JsonBytes(<< >>)))

InitialFilesystems ==
    { << >>,
      EarlierRun @@ (NotesFile :> FileNode(EmptyBytes))
                 @@ (<<DIST, <<"t", "m", "p">> >> :> DirNode)
                 @@ (<<DIST, <<"t", "m", "p">>, <<"x">> >> :> FileNode(EmptyBytes)) }

---------------------------------------------------------------------------
(* The process. *)

\* The process has not ended.
Running == [status |-> 0, stderr |-> "", error |-> ""]

\* main (main.rs lines 94-99) on run's Result: an Err is printed after
\* "fatal error: " and the process exits with status 1.
MainOk == [status |-> 0, stderr |-> "", error |-> ""]

MainErr(e) == [status |-> 1, stderr |-> "fatal error", error |-> e]

\* A panic unwinds through main: the panic message, and status 101.
Panic(msg) == [status |-> 101, stderr |-> "panicked", error |-> msg]

NoLocals ==
    /\ manifest = NoDocument
    /\ results = << >>
    /\ output = EmptyMap
    /\ pending = {}

Init ==
    /\ fs \in InitialFilesystems
    /\ remote \in Documents
    /\ pc = "start"
    /\ NoLocals
    /\ exit = Running
    /\ runs = 0
    /\ published = << >>
    /\ s = EmptyString
    /\ parsed = << >>

\* The process ends with `e`.
Exit(e) ==
    /\ pc' = "exited"
    /\ exit' = e

\* The program is run (again): env::current_dir() and `cwd?`
\* (main.rs lines 95, 102).
Start ==
    /\ pc \in {"start", "exited"}
    /\ runs < MaxRuns
    /\ runs' = runs + 1
    /\ manifest' = NoDocument
    /\ results' = << >>
    /\ output' = EmptyMap
    /\ pending' = {}
    /\ \/ pc' = "clean" /\ exit' = Running
       \/ Exit(MainErr("IoError"))
    /\ UNCHANGED <<fs, remote, published, s, parsed>>

\* clean_dist_directory(&dist, &versions)? (main.rs line 104)
Clean ==
    /\ pc = "clean"
    /\ \E r \in clean_dist_directory(fs) :
          /\ fs' = r.fs
          /\ IF r.ok THEN pc' = "fetch" /\ UNCHANGED exit
                     ELSE Exit(MainErr("IoError"))
    /\ UNCHANGED <<remote, manifest, results, output, pending, runs,
                   published, s, parsed>>

\* fetch_manifest_from_network (main.rs lines 137-142): the served
\* document, or the transport's error.
fetch_manifest_from_network == {[ok |-> TRUE, text |-> remote],
                                [ok |-> FALSE, text |-> NoDocument]}

\* The fetch with its error replaced by an empty text
\* (unwrap_or_default) that the run goes on to save.
FetchOrDefault ==
    /\ pc = "fetch"
    /\ \E r \in fetch_manifest_from_network :
          IF r.ok THEN /\ manifest' = r.text
                       /\ pc' = "save"
                       /\ UNCHANGED <<exit, fs>>
                  ELSE /\ Exit(MainErr("TransportError"))
                       /\ fs' = WriteFile(fs, ManifestPath, EmptyBytes)
                       /\ UNCHANGED manifest
    /\ UNCHANGED <<remote, results, output, pending, runs, published,
                   s, parsed>>

\* let manifest = fetch_manifest_from_network()? (main.rs line 106)
Fetch ==
    /\ pc = "fetch"
    /\ \E r \in fetch_manifest_from_network :
          IF r.ok THEN /\ manifest' = r.text
                       /\ pc' = "save"
                       /\ UNCHANGED exit
                  ELSE /\ Exit(MainErr("TransportError"))
                       /\ UNCHANGED manifest
    /\ UNCHANGED <<fs, remote, results, output, pending, runs, published,
                   s, parsed>>

\* The write of manifest.xml left for after the parsing: nothing is
\* written here.
SaveManifestDeferred ==
    /\ pc = "save"
    /\ pc' = "deserialize"
    /\ UNCHANGED <<fs, exit, remote, manifest, results, output, pending, runs,
                   published, s, parsed>>

\* write(dist.join("manifest.xml"), manifest.as_bytes())? (main.rs line 107)
SaveManifest ==
    /\ pc = "save"
    /\ \/ /\ CanWrite(fs, ManifestPath)
          /\ fs' = WriteFile(fs, ManifestPath, XmlBytes(manifest))
          /\ pc' = "deserialize"
          /\ UNCHANGED exit
       \/ /\ fs' \in FailedWrite(fs, ManifestPath)
          /\ Exit(MainErr("IoError"))
    /\ UNCHANGED <<remote, manifest, results, output, pending, runs,
                   published, s, parsed>>

\* let results: EnumerationResults = from_str(&manifest)? (main.rs line 109)
Deserialize ==
    /\ pc = "deserialize"
    /\ IF from_str(manifest) = {}
       THEN Exit(MainErr("ManifestFormatError")) /\ UNCHANGED results
       ELSE /\ results' \in from_str(manifest)
            /\ pc' = "check"
            /\ UNCHANGED exit
    /\ UNCHANGED <<fs, remote, manifest, output, pending, runs, published,
                   s, parsed>>

\* len() > 0 in place of len() > 1.
SanityHoldsNonEmpty(blobs) == Len(blobs) > 0

\* results.blobs.blobs.len() > 1 (main.rs line 112)
SanityHolds(blobs) == Len(blobs) > 1

\* assert!(results.blobs.blobs.len() > 1) (main.rs line 112)
SanityCheck ==
    /\ pc = "check"
    /\ IF SanityHolds(results)
       THEN pc' = "aggregate" /\ UNCHANGED exit
       ELSE Exit(Panic("assertion failed"))
    /\ UNCHANGED <<fs, remote, manifest, results, output, pending, runs,
                   published, s, parsed>>

\* The fold (main.rs lines 114-124).
Aggregate ==
    /\ pc = "aggregate"
    /\ LET folded == Fold(EmptyMap, results, 1)
       IN  IF folded = {}
           THEN /\ Exit(Panic("unwrap on None"))
                /\ UNCHANGED <<output, pending>>
           ELSE /\ output' \in folded
                /\ pending' = DOMAIN output'
                /\ pc' = "emit"
                /\ UNCHANGED exit
    /\ UNCHANGED <<fs, remote, manifest, results, runs, published, s, parsed>>

\* One iteration of the emitting loop (main.rs lines 126-132): the map's
\* iterator yields one of the versions left, its platforms are serialized
\* in the order their map's iterator yields them, and the file is written.
EmitVersion ==
    /\ pc = "emit"
    /\ \E version \in pending :
       \E order \in IterationOrders(DOMAIN output[version]) :
          LET content == to_string_pretty(output[version], order)
              path == VersionFilePath(version)
          IN  \/ /\ CanWrite(fs, path)
                 /\ fs' = WriteFile(fs, path, JsonBytes(content))
                 /\ pending' = pending \ {version}
                 /\ UNCHANGED <<pc, exit>>
              \/ /\ fs' \in FailedWrite(fs, path)
                 /\ Exit(MainErr("IoError"))
                 /\ UNCHANGED pending
    /\ UNCHANGED <<remote, manifest, results, output, runs, published,
                   s, parsed>>

\* Ok(()) (main.rs line 134): the loop is over and main returns.
Finish ==
    /\ pc = "emit"
    /\ pending = {}
    /\ Exit(MainOk)
    /\ published' = Append(published, VersionFiles(fs))
    /\ UNCHANGED <<fs, remote, manifest, results, output, pending, runs,
                   s, parsed>>

Next ==
    \/ Start
    \/ Clean
    \/ Fetch
    \/ SaveManifest
    \/ Deserialize
    \/ SanityCheck
    \/ Aggregate
    \/ EmitVersion
    \/ Finish

Spec == Init /\ [][Next]_vars

---------------------------------------------------------------------------
(* The name parser alone, on every name of ParserInputs. *)

InitParse ==
    /\ fs = << >>
    /\ remote = NoDocument
    /\ pc = "parser"
    /\ NoLocals
    /\ exit = Running
    /\ runs = 0
    /\ published = << >>
    /\ s \in ParserInputs
    /\ parsed = << >>

\* parse_version_and_platform(&s) is called and returns.
ParseName ==
    /\ pc = "parser"
    /\ parsed = << >>
    /\ parsed' = <<parse_version_and_platform(s)>>
    /\ UNCHANGED <<fs, remote, pc, manifest, results, output, pending, exit,
                   runs, published, s>>

NextParse == ParseName

SpecParse == InitParse /\ [][NextParse]_vars

---------------------------------------------------------------------------
(* The claims about the name parser, under SpecParse. *)

NoSlash(t) == \A i \in DOMAIN t : t[i] # SLASH

\* The parser was called and has returned.
Returned == parsed # << >>

\* t is <version>/edgedriver_<platform>.zip with the version given by the
\* place i of its '/': the two parts, or nothing when t is not so.
PartsAt(t, i) ==
    LET v == SubSeq(t, 1, i - 1)
        from == i + 1 + Len(EDGEDRIVER_PREFIX)
        to == Len(t) - Len(ZIP_SUFFIX)
    IN  IF /\ t[i] = SLASH
           /\ from <= to + 1
           /\ t = NameOf(v, SubSeq(t, from, to))
           /\ NoSlash(v)
           /\ NoSlash(SubSeq(t, from, to))
        THEN {<<v, SubSeq(t, from, to)>>}
        ELSE {}

\* The (version, platform) pairs t is the name of: none, or one.
Parts(t) == UNION {PartsAt(t, i) : i \in DOMAIN t}

\* C3: parse_version_and_platform returns None for every string that is
\* not <version>/edgedriver_<platform>.zip with a non-empty platform: a
\* wrong number of segments, a second segment without the prefix or the
\* suffix, or a platform that is empty after stripping.
C3_MalformedNameIsNone ==
    (Returned /\ ~(\E vp \in Parts(s) : vp[2] # EmptyString))
        => parsed[1] = None

\* C4: for every non-empty version v and platform p without '/', the name
\* v/edgedriver_p.zip parses to Some((v, p)), both verbatim; the unit
\* test's name parses to ("100.0.1154.0", "arm64").
C4_WellFormedNameParsed ==
    Returned =>
        /\ \A vp \in Parts(s) :
              vp[1] # EmptyString /\ vp[2] # EmptyString
                  => parsed[1] = Some(vp[1], vp[2])
        /\ s = TestName => parsed[1] = <<TestVersion, ARM64>>

\* C4's case: a platform that itself ends in ".zip" came back whole.
C4_Witness ==
    /\ Returned
    /\ s = NameOf(V1_0, ZIP_SUFFIX)
    /\ parsed[1] = <<V1_0, ZIP_SUFFIX>>

\* C10: every Version the parser produces is a non-empty string.
C10_VersionNonEmpty ==
    (Returned /\ parsed[1] # None) => parsed[1][1] # EmptyString

---------------------------------------------------------------------------
(* The claims about the run, under Spec. *)

Exited == pc = "exited"

\* The entries of blobs whose name parses.
Parsable(blobs) ==
    SelectSeq(blobs, LAMBDA b : parse_version_and_platform(b.name) # None)

\* The fetched manifest deserialized to a listing of at most one entry.
EmptyListing ==
    /\ from_str(manifest) # {}
    /\ \A r \in from_str(manifest) : Len(r) <= 1

\* The run got past the sanity check of a listing of two or more entries
\* and ended otherwise than by a failed write.
EndedAfterAggregation ==
    Exited /\ Len(results) >= 2 /\ exit.error # "IoError"

\* C1: with a listing of two or more entries, an entry whose name does not
\* parse is skipped: the run ends successfully and the index is built from
\* the parsable entries alone.
C1_UnparsableEntrySkipped ==
    EndedAfterAggregation =>
        /\ exit = MainOk
        /\ {output} = Fold(EmptyMap, Parsable(results), 1)

\* C2, as claimed: a manifest of 0 or 1 entries makes the run fail with an
\* error that main reports like the other fatal kinds, and no file is
\* written under versions/.
C2_EmptyManifestIsReportedError ==
    /\ EmptyListing => DOMAIN VersionFiles(fs) = {}
    /\ (Exited /\ EmptyListing /\ exit.error # "IoError")
          => exit.status = 1 /\ exit.stderr = "fatal error"

\* C2, amended: a manifest of 0 or 1 entries makes the run end in the
\* panic of the assertion (the panic's message and status 101, not main's
\* "fatal error" and status 1), and no file is ever written under
\* versions/ in that run.
C2_EmptyManifestPanics ==
    /\ EmptyListing => DOMAIN VersionFiles(fs) = {}
    /\ (Exited /\ EmptyListing /\ exit.error # "IoError")
          => exit = Panic("assertion failed")

\* C2's case: a listing of one entry, of a name that parses, stopped the run.
C2_Witness ==
    /\ Exited
    /\ Len(results) = 1
    /\ Parsable(results) = results
    /\ exit = Panic("assertion failed")

\* C5: two runs against the same fetched manifest leave the same files
\* under versions/, byte for byte.
C5_RunsLeaveIdenticalFiles ==
    \A i, j \in DOMAIN published : published[i] = published[j]

\* The aggregation has completed in this run.
Aggregated == pc = "emit" \/ (Exited /\ DOMAIN output # {})

SamePair(i, j) ==
    /\ parse_version_and_platform(results[i].name) # None
    /\ parse_version_and_platform(results[i].name)
          = parse_version_and_platform(results[j].name)

\* C6: after the aggregation, for every (version, platform) that two or
\* more entries parse to, the index holds at that pair the fields of the
\* last such entry in listing order: url, lastModified, etag, contentMd5
\* as md5, contentLength and contentType, verbatim.
C6_LastWriteWins ==
    Aggregated =>
        \A j \in DOMAIN results :
            (/\ \E i \in 1..(j - 1) : SamePair(i, j)
             /\ \A k \in (j + 1)..Len(results) : ~SamePair(j, k))
            => LET vp == parse_version_and_platform(results[j].name)
               IN  /\ vp[1] \in DOMAIN output
                   /\ vp[2] \in DOMAIN output[vp[1]]
                   /\ output[vp[1]][vp[2]].url = results[j].url
                   /\ output[vp[1]][vp[2]].last_modified
                         = results[j].properties.last_modified
                   /\ output[vp[1]][vp[2]].etag = results[j].properties.etag
                   /\ output[vp[1]][vp[2]].md5
                         = results[j].properties.content_md5
                   /\ output[vp[1]][vp[2]].content_length
                         = results[j].properties.content_length
                   /\ output[vp[1]][vp[2]].content_type
                         = results[j].properties.content_type

\* C6's case: two entries of one pair with different fields were aggregated.
C6_Witness ==
    /\ Aggregated
    /\ \E i, j \in DOMAIN results :
          i < j /\ SamePair(i, j) /\ results[i].url # results[j].url

\* The run ended successfully.
Succeeded == Exited /\ exit.status = 0

\* C7: after a successful run, whatever dist held before, versions/ holds
\* exactly one <version>.json per version of the index, two versions
\* never sharing a file, and dist holds besides it manifest.xml alone.
C7_OnlyThisRunsFiles ==
    Succeeded =>
        /\ DOMAIN fs = {DistPath, VersionsPath, ManifestPath}
                          \cup {VersionFilePath(v) : v \in DOMAIN output}
        /\ Cardinality(DOMAIN VersionFiles(fs)) = Cardinality(DOMAIN output)
        /\ fs[DistPath].dir /\ fs[VersionsPath].dir
        /\ \A v \in DOMAIN output : ~fs[VersionFilePath(v)].dir

\* C7's case: a second run, of a listing of two versions, succeeded.
C7_Witness ==
    /\ Succeeded
    /\ runs = 2
    /\ Cardinality(DOMAIN output) = 2

\* The run fetched the manifest and wrote manifest.xml.
ManifestSaved ==
    \/ pc \in {"deserialize", "check", "aggregate", "emit"}
    \/ /\ Exited
       /\ \/ exit.error \in {"ManifestFormatError", "assertion failed",
                             "unwrap on None"}
          \/ exit.error = "IoError" /\ DOMAIN output # {}
          \/ Succeeded

\* C8: once the fetch and the write of manifest.xml have succeeded, from
\* before the parsing on and however the run ends (a manifest that does
\* not deserialize, the empty-manifest failure, a later failed write),
\* manifest.xml holds the fetched text.
C8_ManifestSavedBeforeParsing ==
    ManifestSaved =>
        /\ ManifestPath \in DOMAIN fs
        /\ fs[ManifestPath] = FileNode(XmlBytes(remote))

\* C8's case: the manifest did not deserialize, and is on disk.
C8_Witness ==
    /\ Exited
    /\ exit = MainErr("ManifestFormatError")
    /\ ManifestPath \in DOMAIN fs
    /\ fs[ManifestPath] = FileNode(XmlBytes(remote))

\* C9: when the fetch fails, the run ends in failure and dist holds what
\* the preparation left: itself and an empty versions/, no manifest.xml
\* and no version file.
C9_TransportErrorLeavesEmptyDist ==
    (Exited /\ exit.error = "TransportError") =>
        /\ exit = MainErr("TransportError")
        /\ DOMAIN fs = {DistPath, VersionsPath}
        /\ fs[DistPath].dir /\ fs[VersionsPath].dir

\* C9's case: the fetch of a second run failed.
C9_Witness ==
    /\ Exited
    /\ exit.error = "TransportError"
    /\ runs = 2

=============================================================================
